---- MODULE Spec2Model ----
(***************************************************************************)
(* The chat session of src/src/pages/ChatPage.tsx: the message list and    *)
(* the execution-plan step statuses under inbound WebSocket frames, user   *)
(* operations and timers, and the life cycle of the WebSocket connection   *)
(* (setup, open, close, delayed reconnect, unmount); the thinking messages  *)
(* shown while the assistant is typing; and the auth client of             *)
(* src/src/services/authAPI.ts with its token refresh.                     *)
(*                                                                         *)
(* Strings are sequences of tokens, cut at the boundaries of the marker    *)
(* substrings the code searches for, and String.includes is a search for a *)
(* contiguous run of tokens.  Emoji are written as bracketed ASCII names.  *)
(***************************************************************************)
EXTENDS Integers, Sequences, FiniteSets, TLC

VARIABLES
  phase,            \* "init" (rendered, effects not yet run), "mounted", "unmounted"
  messages,         \* useState<Message[]>
  isConnected,      \* useState(false)
  isTyping,         \* useState<TypingIndicator>
  conversationId,   \* useState<string | null>, the current value
  closureConvId,    \* conversationId as captured by the first render's initializeWebSocket
  accessToken,      \* localStorage access_token, by kind of token
  refreshToken,     \* localStorage refresh_token is present
  storedConvId,     \* sessionStorage current_conversation_id
  location,         \* window.location: "chat" or "login"
  sockets,          \* every WebSocket the session created, in creation order
  wsRef,            \* wsRef.current: an index into sockets, 0 for null
  pendingCreates,   \* POST /api/conversations requests in flight
  stepTimers,       \* pending executeStep fallback timeouts, in creation order
  reconnectTimers,  \* pending onclose reconnect timeouts, in creation order
  toast,            \* the notification the last step raised, NoVal when it raised none
  sent,             \* frames handed to WebSocket.send, in order
  nAppendFrames,    \* history: ai_response and recovery_* frames dispatched while mounted
  stepEvent,        \* the step_completed or step_failed frame the last step dispatched
  event,            \* what else the last step handled: an error, recovery or typing
                    \* frame, the response of POST /api/conversations, a heartbeat or
                    \* a rotation callback, a sendMessage or an executeStep
  thinkingMessages,       \* useState<string[]>
  currentThinkingMessage, \* useState(0): the index of the thinking message shown
  announcedConvId,  \* history: the id of the last conversation_created frame handled
  authRequests      \* the requests made through authClient, in the order they were made

vars == <<phase, messages, isConnected, isTyping, conversationId, closureConvId,
          accessToken, refreshToken, storedConvId, location, sockets, wsRef,
          pendingCreates, stepTimers, reconnectTimers, toast, sent, nAppendFrames, stepEvent,
          event, thinkingMessages, currentThinkingMessage, announcedConvId, authRequests>>

chatVars == <<messages, isTyping, nAppendFrames>>
storageVars == <<accessToken, refreshToken, storedConvId, location>>
connVars == <<sockets, wsRef, pendingCreates, isConnected>>
timerVars == <<stepTimers, reconnectTimers>>
thinkingVars == <<thinkingMessages, currentThinkingMessage>>

(***************************************************************************)
(* Bounds of the model.                                                    *)
(***************************************************************************)
MaxMsgs == 4
MaxSockets == 2
MaxPings == 1
MaxAuthCalls == 2

(***************************************************************************)
(* Constants of the program.                                               *)
(***************************************************************************)
ReconnectDelay == 3
StepFallbackDelay == 3
NormalClosure == 1000
PolicyViolation == 1008

\* undefined / null / a field that is absent
NoVal == "undefined"

\* The last step dispatched no step_completed or step_failed frame
NoStepEvent == [type |-> NoVal, step_id |-> NoVal]

\* The last step handled none of the events that event records
NoEvent == [kind |-> NoVal, detail |-> NoVal]

\* Close codes a close event can carry when the server or the network ends the
\* connection, and when the client called close() without a code (the code of the
\* close frame the server answers with, 1005 when it carries none, 1006 when the
\* connection drops before the handshake completes).
ServerCloseCodes == {NormalClosure, 1001, 1006, PolicyViolation}
ClientCloseCodes == {NormalClosure, 1005, 1006}

(***************************************************************************)
(* Strings.                                                                *)
(***************************************************************************)
\* String.prototype.includes
Includes(s, pat) ==
  \E i \in 0..(Len(s) - Len(pat)) : SubSeq(s, i + 1, i + Len(pat)) = pat

\* String.prototype.toLowerCase, on the tokens that have upper-case letters
LowerToken(t) ==
  CASE t = "Deploy" -> "deploy"
    [] t = "Execute" -> "execute"
    [] t = "Step" -> "step"
    [] t = "Execution" -> "execution"
    [] t = "Plan" -> "plan"
    [] OTHER -> t

ToLowerCase(s) == [i \in DOMAIN s |-> LowerToken(s[i])]

\* String.prototype.trim
RECURSIVE TrimStart(_)
TrimStart(s) == IF s # <<>> /\ Head(s) = " " THEN TrimStart(Tail(s)) ELSE s

RECURSIVE TrimEnd(_)
TrimEnd(s) ==
  IF s # <<>> /\ s[Len(s)] = " " THEN TrimEnd(SubSeq(s, 1, Len(s) - 1)) ELSE s

Trim(s) == TrimEnd(TrimStart(s))

\* The marker substrings of the ai_response heuristics
StepCompletedMarker == <<"[check]", " ", "Step", " ", "completed", ":">>
StepFailedMarker == <<"[cross]", " ", "Step", " ", "failed", ":">>
ExecuteStepMarker == <<"Execute", " ", "step", ":">>
CrossMark == <<"[cross]">>
FailedWord == <<"failed">>
PlanMarker == <<"[clipboard]", " ", "Execution", " ", "Plan", ":">>
AnalyzedMarker == <<"[robot]", " ", "**", "Deploy", "ment", " ", "Request", " ", "Analyzed", "**">>
DeployWord == <<"deploy">>
DeploymentWord == <<"Deploy", "ment">>

IsStepResult(content) ==
  \/ Includes(content, StepCompletedMarker)
  \/ Includes(content, StepFailedMarker)
  \/ Includes(content, ExecuteStepMarker)

\* Mutant of StepResultStatus: the failure markers are not looked at
StepResultStatusAlwaysCompleted(content) == "completed"

StepResultStatus(content) ==
  IF Includes(content, CrossMark) \/ Includes(content, FailedWord)
    THEN "failed" ELSE "completed"

IsExecutionPlan(content) ==
  \/ Includes(content, PlanMarker)
  \/ Includes(content, AnalyzedMarker)
  \/ Includes(content, DeployWord)
  \/ Includes(content, DeploymentWord)

(***************************************************************************)
(* Messages, plans and steps.                                              *)
(***************************************************************************)
\* Date.now().toString(): the clock is not modelled, every reading gives this value
Now == "now"

NoPlan == <<>>

InitialMessages ==
  << [id |-> "1", type |-> "system", content |-> <<"Welcome">>, executionPlan |-> NoPlan] >>

\* The messages the onmessage handler reads at line 423: the handler is created inside
\* initializeWebSocket, which the mount effect (dependency list []) and the reconnect
\* timer take from the first render, so it keeps that render's messages.
ClosureMessages == InitialMessages

Step(id, service, action, description, estimatedTime) ==
  [id |-> id, service |-> service, action |-> action, description |-> description,
   parameters |-> <<>>, status |-> "pending", estimatedTime |-> estimatedTime]

\* Mutant of deploymentSteps: the DNS step comes after the SSH key step
deploymentStepsDnsAfterSsh ==
  << Step("step-1", "mercury", "analyze_repository",
          "Analyze repository structure and requirements", "30s"),
     Step("step-2", "atlas", "provision_infrastructure",
          "Provision cloud infrastructure", "2-3m"),
     Step("step-4", "hermes", "generate_ssh_key",
          "Generate SSH keys for deployment", "30s"),
     Step("step-3", "neptune", "create_dns_record", "Configure DNS records", "1m"),
     Step("step-5", "phoenix", "deploy_application",
          "Deploy application to infrastructure", "3-5m") >>

deploymentSteps ==
  << Step("step-1", "mercury", "analyze_repository",
          "Analyze repository structure and requirements", "30s"),
     Step("step-2", "atlas", "provision_infrastructure",
          "Provision cloud infrastructure", "2-3m"),
     Step("step-3", "neptune", "create_dns_record", "Configure DNS records", "1m"),
     Step("step-4", "hermes", "generate_ssh_key",
          "Generate SSH keys for deployment", "30s"),
     Step("step-5", "phoenix", "deploy_application",
          "Deploy application to infrastructure", "3-5m") >>

NewPlan ==
  [id |-> <<"deployment-plan-", Now>>,
   objective |-> "Deploy application with full infrastructure setup",
   steps |-> deploymentSteps,
   status |-> "awaiting_approval",
   totalEstimatedTime |-> "7-10 minutes"]

HasPlan(message) == message.type = "execution_plan" /\ message.executionPlan # NoPlan

\* the steps of the plan messages of prev
PlanSteps(prev) ==
  UNION { { prev[i].executionPlan[1].steps[j] : j \in DOMAIN prev[i].executionPlan[1].steps }
          : i \in { k \in DOMAIN prev : HasPlan(prev[k]) } }

\* prev.map(message => ...) replacing every step of every plan message by f[step]
MapSteps(prev, f) ==
  [i \in DOMAIN prev |->
     IF HasPlan(prev[i])
       THEN [prev[i] EXCEPT !.executionPlan =
               << [prev[i].executionPlan[1] EXCEPT !.steps =
                     [j \in DOMAIN prev[i].executionPlan[1].steps |->
                        f[prev[i].executionPlan[1].steps[j]]]] >>]
       ELSE prev[i]]

\* Mutant of SetStepStatus: the step id is not compared, every step gets the status
SetStepStatusEveryStep(prev, stepId, status) ==
  MapSteps(prev, [step \in PlanSteps(prev) |-> [step EXCEPT !.status = status]])

\* Mutant of SetStepStatus: filter in place of map, the messages without a plan are lost
SetStepStatusFilter(prev, stepId, status) ==
  SelectSeq(MapSteps(prev, [step \in PlanSteps(prev) |->
                              IF step.id = stepId THEN [step EXCEPT !.status = status]
                                                  ELSE step]),
            HasPlan)

\* Mutant of SetStepStatus: a step that already has the status goes back to pending
SetStepStatusToggle(prev, stepId, status) ==
  MapSteps(prev, [step \in PlanSteps(prev) |->
                    IF step.id = stepId
                      THEN [step EXCEPT !.status = IF @ = status THEN "pending" ELSE status]
                      ELSE step])

\* Mutant of SetStepStatus: the steps the id does not name are reset to pending
SetStepStatusResetSiblings(prev, stepId, status) ==
  MapSteps(prev, [step \in PlanSteps(prev) |->
                    [step EXCEPT !.status = IF step.id = stepId THEN status ELSE "pending"]])

\* step.id === stepId ? { ...step, status } : step
SetStepStatus(prev, stepId, status) ==
  MapSteps(prev, [step \in PlanSteps(prev) |->
                    IF step.id = stepId THEN [step EXCEPT !.status = status] ELSE step])

\* step.status === 'executing' ? { ...step, status } : step
ResolveExecuting(prev, status) ==
  MapSteps(prev, [step \in PlanSteps(prev) |->
                    IF step.status = "executing" THEN [step EXCEPT !.status = status]
                                                 ELSE step])

\* data.timestamp || Date.now().toString()
MessageId(timestamp) == IF timestamp = NoVal THEN Now ELSE timestamp

NotTyping == [is_typing |-> FALSE, agent |-> NoVal, operation |-> NoVal]

\* A state setter of the component: React drops the update once the component is
\* unmounted.
SetState(current, new) == IF phase = "mounted" THEN new ELSE current

\* The page lives until window.location.href is assigned.
Running == location = "chat"

(***************************************************************************)
(* The inputs the environment draws from.                                  *)
(***************************************************************************)
\* The kinds of localStorage access_token: absent; without a dot; three segments
\* whose payload is not base64 JSON; three segments whose payload lacks workspace_id;
\* a decodable payload with both fields in a token of two segments; a well-formed JWT
TokenKinds == {"none", "malformed", "undecodable", "nofields", "twosegments", "valid"}
StoredConvIds == {NoVal, "c0"}
CreatedConvIds == {"c1"}
AnnouncedConvIds == {"c2"}
FetchOutcomes == {"ok", "unauthorized", "failed"}

AiContents ==
  { <<"Hello">>,
    PlanMarker,
    StepCompletedMarker \o <<" ", "Analyze Repo">>,
    StepFailedMarker \o <<" ", "Analyze Repo">> }
\* An ai_response frame carries a timestamp; a recovery frame carries none here, so
\* that both branches of data.timestamp || Date.now() are taken
AiTimestamps == {"t1"}
RecoveryTimestamps == {NoVal}
TypingAgents == {"Victor"}
TypingIntents == {"general_question"}
\* The typing frames of NextChat end the typing: the frames that start it, and the
\* thinking messages they select, are in NextTyping and NextKeepAlive
StoppedTyping == {FALSE}
\* The fields of the typing_indicator frames of NextTyping, and the texts typed there
ThinkingAgents == {NoVal, "Atlas", "Hermes"}
ThinkingOperations == {NoVal, "consulting_atlas", "constructor"}
ThinkingIntents == {NoVal, "check_status", "generating_ssh_keys"}
ThinkingInputs == { <<" ">>, <<"deploy", " ", "my", " ", "app">> }
\* The urls of the calls of authAPI and the responses of the auth service
AuthUrls == { <<"/me">>, <<"/refresh">> }
AuthStatuses == {"ok", "empty", "unauthorized", "failed"}
EventStepIds == {"step-1", "step-9"}
ErrorMessages == {NoVal, "boom"}
RecoveryTypes ==
  {"recovery_started", "recovery_progress", "recovery_success", "recovery_escalated"}
RecoveryMessages == { <<"Retrying">> }
UserInputs == { <<" ">>, <<" ", "hi", " ">> }
ExecutionResponses == {"approve", "reject", "modify"}
\* The steps of a plan (by position) whose button the user clicks
ClickedSteps == {1, 2}

(***************************************************************************)
(* The bearer token.                                                       *)
(***************************************************************************)
\* A segment that is not the base64 of a JSON object
OpaqueSegment == [json |-> FALSE, user_id |-> NoVal, workspace_id |-> NoVal]

\* A segment that is the base64 of a JSON object with these fields
JsonSegment(user_id, workspace_id) ==
  [json |-> TRUE, user_id |-> user_id, workspace_id |-> workspace_id]

\* token.split('.') of a token of the kind
TokenSegments(kind) ==
  CASE kind = "malformed" -> <<OpaqueSegment>>
    [] kind = "undecodable" -> <<OpaqueSegment, OpaqueSegment, OpaqueSegment>>
    [] kind = "nofields" -> <<OpaqueSegment, JsonSegment("u1", NoVal), OpaqueSegment>>
    [] kind = "twosegments" -> <<OpaqueSegment, JsonSegment("u1", "w1")>>
    [] OTHER -> <<OpaqueSegment, JsonSegment("u1", "w1"), OpaqueSegment>>

\* JSON.parse(atob(token.split('.')[1])) throws: atob(undefined) when the token has
\* no second segment, atob or JSON.parse when the segment is not base64 JSON
DecodeThrows(segments) == Len(segments) < 2 \/ ~segments[2].json

\* tokenPayload
TokenPayload(segments) == segments[2]

(***************************************************************************)
(* The thinking messages shown while the assistant is typing.              *)
(***************************************************************************)
baseMessages ==
  << "Processing your request...",
     "Analyzing your requirements...",
     "Coordinating with microservices..." >>

intentMessages ==
  [ deploy_application |->
      << "Analyzing your application requirements...",
         "Consulting with Atlas for optimal server specs...",
         "Reviewing deployment patterns...",
         "Calculating infrastructure costs...",
         "Preparing deployment strategy...",
         "Configuring SSH keys for secure access...",
         "Setting up automated deployment pipeline...",
         "Optimizing for performance and cost..." >>,
    create_infrastructure |->
      << "Evaluating cloud provider options...",
         "Calculating resource requirements...",
         "Comparing regional pricing...",
         "Consulting Atlas for infrastructure planning...",
         "Reviewing security configurations...",
         "Preparing infrastructure blueprint...",
         "Estimating monthly costs...",
         "Validating network configurations..." >>,
    estimate_costs |->
      << "Accessing real-time pricing data...",
         "Analyzing current infrastructure spend...",
         "Calculating projected monthly costs...",
         "Comparing provider pricing...",
         "Running cost optimization algorithms...",
         "Identifying potential savings...",
         "Preparing detailed cost breakdown..." >>,
    check_status |->
      << "Querying infrastructure health status...",
         "Checking service uptime metrics...",
         "Analyzing performance data...",
         "Reviewing recent deployments...",
         "Gathering system diagnostics...",
         "Compiling status report..." >>,
    scale_infrastructure |->
      << "Analyzing current resource utilization...",
         "Calculating scaling requirements...",
         "Evaluating auto-scaling policies...",
         "Consulting Atlas for scaling strategy...",
         "Estimating scaling costs...",
         "Preparing resource adjustment plan..." >>,
    manage_costs |->
      << "Analyzing current spending patterns...",
         "Identifying cost optimization opportunities...",
         "Reviewing resource utilization...",
         "Calculating potential savings...",
         "Preparing cost reduction recommendations...",
         "Evaluating right-sizing options..." >>,
    security_review |->
      << "Scanning infrastructure security posture...",
         "Reviewing access controls...",
         "Checking compliance requirements...",
         "Analyzing vulnerability reports...",
         "Consulting Sherlock for security insights...",
         "Preparing security recommendations..." >>,
    general_question |->
      << "Processing your question...",
         "Accessing knowledge base...",
         "Consulting relevant documentation...",
         "Preparing comprehensive response..." >> ]

operationMessages ==
  [ analyzing_infrastructure |->
      << "Scanning your current infrastructure...",
         "Analyzing resource utilization patterns...",
         "Reviewing cost optimization opportunities...",
         "Checking system health metrics..." >>,
    consulting_atlas |->
      << "Consulting with Atlas infrastructure service...",
         "Calculating optimal resource configurations...",
         "Comparing cloud provider options...",
         "Preparing infrastructure recommendations..." >>,
    retrieving_credentials |->
      << "Securely retrieving API credentials...",
         "Accessing encrypted credential store...",
         "Validating authentication tokens...",
         "Establishing secure connections..." >>,
    calling_digitalocean_api |->
      << "Connecting to DigitalOcean API...",
         "Fetching real-time infrastructure data...",
         "Retrieving droplet configurations...",
         "Calculating actual monthly costs..." >>,
    generating_ssh_keys |->
      << "Generating secure SSH key pairs...",
         "Configuring deployment access...",
         "Setting up automated authentication...",
         "Preparing secure server connections..." >>,
    executing_plan |->
      << "Executing approved infrastructure plan...",
         "Coordinating multi-step deployment...",
         "Monitoring execution progress...",
         "Ensuring deployment success..." >> ]

agentMessages ==
  [ Atlas |->
      << "Atlas is provisioning cloud resources...",
         "Consulting with DigitalOcean API...",
         "Calculating infrastructure costs...",
         "Configuring network topology...",
         "Setting up load balancers...",
         "Initializing database clusters..." >>,
    Phoenix |->
      << "Phoenix is analyzing deployment pipeline...",
         "Configuring CI/CD workflows...",
         "Setting up monitoring dashboards...",
         "Preparing rollback strategies...",
         "Optimizing deployment performance..." >>,
    Sherlock |->
      << "Sherlock is scanning security configurations...",
         "Analyzing access patterns...",
         "Checking compliance requirements...",
         "Reviewing audit logs...",
         "Identifying security vulnerabilities..." >>,
    Victor |->
      << "Victor is orchestrating the request...",
         "Coordinating between specialized agents...",
         "Analyzing intent and requirements...",
         "Preparing execution plan...",
         "Synchronizing with Context Manager..." >> ]

\* The general infrastructure messages added when the context is limited
fillerMessages ==
  << "Accessing real-time infrastructure data...",
     "Synchronizing with cloud providers...",
     "Optimizing resource allocation...",
     "Preparing detailed analysis..." >>

\* The property names every object literal inherits from Object.prototype: the
\* tables are plain objects, so table[key] finds these too
InheritedKeys ==
  {"constructor", "toString", "toLocaleString", "valueOf", "hasOwnProperty",
   "isPrototypeOf", "propertyIsEnumerable", "__proto__"}

\* table[key]: an own entry is a list of messages, an inherited property is a
\* function or an object (truthy, not iterable), any other key is undefined
Lookup(table, key) ==
  CASE key \in DOMAIN table -> [kind |-> "own", list |-> table[key]]
    [] key \in InheritedKeys -> [kind |-> "inherited", list |-> <<>>]
    [] OTHER -> [kind |-> NoVal, list |-> <<>>]

\* A string is truthy unless it is undefined, null or empty
Truthy(value) == value # NoVal /\ value # ""

\* [...contextMessages, ...entry]: spreading a value that is not iterable throws
\* a TypeError
Spread(contextMessages, entry) ==
  IF contextMessages.threw \/ entry.kind = "inherited"
    THEN [threw |-> TRUE, list |-> <<>>]
    ELSE [threw |-> FALSE, list |-> contextMessages.list \o entry.list]

\* getContextAwareThinkingMessages(intent, agent): the list returned, or threw when
\* the call ends in an exception
getContextAwareThinkingMessages(intent, agent) ==
  LET base == [threw |-> FALSE, list |-> baseMessages]
      withIntent ==
        IF Truthy(intent) /\ Lookup(operationMessages, intent).kind # NoVal
          THEN Spread(base, Lookup(operationMessages, intent))
          ELSE IF Truthy(intent) /\ Lookup(intentMessages, intent).kind # NoVal
                 THEN Spread(base, Lookup(intentMessages, intent))
                 ELSE base
      withAgent ==
        IF ~withIntent.threw /\ Truthy(agent) /\ Lookup(agentMessages, agent).kind # NoVal
          THEN Spread(withIntent, Lookup(agentMessages, agent))
          ELSE withIntent
  IN IF ~withAgent.threw /\ Len(withAgent.list) <= 3
       THEN [threw |-> FALSE, list |-> withAgent.list \o fillerMessages]
       ELSE withAgent

\* currentIntent as the first render's initializeWebSocket captured it: the
\* handlers of every socket read this value, whatever sendMessage has set since
ClosureIntent == NoVal

\* predictIntent(message): the first keyword group the lower-cased text mentions
predictIntent(message) ==
  LET text == ToLowerCase(message)
      Mentions(words) == \E w \in words : Includes(text, <<w>>)
  IN IF Mentions({"deploy", "deployment"}) THEN "deploy_application"
     ELSE IF Mentions({"create", "provision", "setup", "new"}) THEN "create_infrastructure"
     ELSE IF Mentions({"cost", "price", "estimate", "budget"}) THEN "estimate_costs"
     ELSE IF Mentions({"status", "health", "running", "check"}) THEN "check_status"
     ELSE IF Mentions({"scale", "resize", "expand"}) THEN "scale_infrastructure"
     ELSE IF Mentions({"optimize", "reduce", "save"}) THEN "manage_costs"
     ELSE IF Mentions({"security", "secure", "vulnerability"}) THEN "security_review"
     ELSE "general_question"

(***************************************************************************)
(* Initial state: the first render, before the effects run.                *)
(***************************************************************************)
Init ==
  /\ phase = "init"
  /\ messages = InitialMessages
  /\ isConnected = FALSE
  /\ isTyping = NotTyping
  /\ accessToken \in TokenKinds
  /\ refreshToken = (accessToken # "none")
  /\ \E stored \in StoredConvIds :
       \* the useState initializer of conversationId
       /\ storedConvId = IF accessToken = "none" THEN NoVal ELSE stored
       /\ conversationId = storedConvId
       /\ closureConvId = storedConvId
  /\ location = "chat"
  /\ sockets = <<>>
  /\ wsRef = 0
  /\ pendingCreates = 0
  /\ stepTimers = <<>>
  /\ reconnectTimers = <<>>
  /\ toast = NoVal
  /\ sent = <<>>
  /\ nAppendFrames = 0
  /\ stepEvent = NoStepEvent
  /\ event = NoEvent
  /\ thinkingMessages = <<"Processing your request...">>
  /\ currentThinkingMessage = 0
  /\ announcedConvId = NoVal
  /\ authRequests = <<>>

(***************************************************************************)
(* Connection setup.                                                       *)
(***************************************************************************)
\* new WebSocket(url) and wsRef.current = ws; the handlers are attached in between.
\* createdIn is history: the phase of the component when the socket was created.
NewWebSocket(convId) ==
  /\ Len(sockets) < MaxSockets
  /\ sockets' = Append(sockets, [readyState |-> "CONNECTING", convId |-> convId,
                                 heartbeatInterval |-> FALSE, closeCodes |-> {}, code |-> 0,
                               createdIn |-> phase])
  /\ wsRef' = Len(sockets) + 1

\* initializeWebSocket up to its first await (or to its end when it has none)
InitializeWebSocket ==
  CASE accessToken = "none" ->
         /\ toast' = "Please log in to start chatting"
         /\ UNCHANGED <<sockets, wsRef, pendingCreates>>
    [] accessToken # "none" /\ DecodeThrows(TokenSegments(accessToken)) ->
         \* atob or JSON.parse throws, the catch block reports it
         /\ toast' = "Failed to connect to AI assistant"
         /\ UNCHANGED <<sockets, wsRef, pendingCreates>>
    [] /\ accessToken # "none"
       /\ ~DecodeThrows(TokenSegments(accessToken))
       /\ \/ TokenPayload(TokenSegments(accessToken)).user_id = NoVal
          \/ TokenPayload(TokenSegments(accessToken)).workspace_id = NoVal ->
         /\ toast' = "Invalid authentication. Please log in again."
         /\ UNCHANGED <<sockets, wsRef, pendingCreates>>
    [] OTHER ->
         IF closureConvId = NoVal
           THEN /\ pendingCreates' = pendingCreates + 1
                /\ toast' = NoVal
                /\ UNCHANGED <<sockets, wsRef>>
           ELSE /\ NewWebSocket(closureConvId)
                /\ toast' = NoVal
                /\ UNCHANGED pendingCreates

\* Mutant of Mount: the effect runs initializeWebSocket twice
MountInitializesTwice ==
  /\ Running
  /\ stepEvent' = NoStepEvent
  /\ event' = NoEvent
  /\ UNCHANGED <<thinkingVars, announcedConvId, authRequests>>
  /\ phase = "init"
  /\ phase' = "mounted"
  /\ IF accessToken \in {"twosegments", "valid"}
       THEN /\ toast' = NoVal
            /\ IF closureConvId = NoVal
                 THEN /\ pendingCreates' = pendingCreates + 2
                      /\ UNCHANGED <<sockets, wsRef>>
                 ELSE /\ sockets' =
                           sockets \o
                           << [readyState |-> "CONNECTING", convId |-> closureConvId,
                               heartbeatInterval |-> FALSE, closeCodes |-> {}, code |-> 0,
                               createdIn |-> phase],
                              [readyState |-> "CONNECTING", convId |-> closureConvId,
                               heartbeatInterval |-> FALSE, closeCodes |-> {}, code |-> 0,
                               createdIn |-> phase] >>
                      /\ wsRef' = Len(sockets) + 2
                      /\ UNCHANGED pendingCreates
       ELSE InitializeWebSocket
  /\ UNCHANGED <<chatVars, storageVars, timerVars, isConnected, conversationId,
                 closureConvId, sent>>

\* The mount effect
Mount ==
  /\ Running
  /\ stepEvent' = NoStepEvent
  /\ event' = NoEvent
  /\ UNCHANGED <<thinkingVars, announcedConvId, authRequests>>
  /\ phase = "init"
  /\ phase' = "mounted"
  /\ InitializeWebSocket
  /\ UNCHANGED <<chatVars, storageVars, timerVars, isConnected, conversationId,
                 closureConvId, sent>>

\* Mutant of FetchReturn: a 401 response leaves the stored tokens in place
FetchReturnKeepsTokens(outcome) ==
  /\ Running
  /\ stepEvent' = NoStepEvent
  /\ event' = [kind |-> "response", detail |-> outcome]
  /\ UNCHANGED <<thinkingVars, announcedConvId, authRequests>>
  /\ pendingCreates > 0
  /\ pendingCreates' = pendingCreates - 1
  /\ CASE outcome = "ok" ->
            \E id \in CreatedConvIds :
              /\ conversationId' = SetState(conversationId, id)
              /\ storedConvId' = id
              /\ NewWebSocket(id)
              /\ toast' = NoVal
              /\ UNCHANGED <<accessToken, refreshToken, location>>
       [] outcome = "unauthorized" ->
            /\ storedConvId' = NoVal
            /\ UNCHANGED <<accessToken, refreshToken>>
            /\ toast' = "Authentication expired. Please log in again."
            /\ location' = "login"
            /\ UNCHANGED <<conversationId, sockets, wsRef>>
       [] OTHER ->
            \* throw new Error('Failed to create conversation'), or fetch rejected
            /\ toast' = "Failed to connect to AI assistant"
            /\ UNCHANGED <<conversationId, storageVars, sockets, wsRef>>
  /\ UNCHANGED <<phase, chatVars, timerVars, isConnected, closureConvId, sent>>

\* initializeWebSocket from the response of POST /api/conversations on
FetchReturn(outcome) ==
  /\ Running
  /\ stepEvent' = NoStepEvent
  /\ event' = [kind |-> "response", detail |-> outcome]
  /\ UNCHANGED <<thinkingVars, announcedConvId, authRequests>>
  /\ pendingCreates > 0
  /\ pendingCreates' = pendingCreates - 1
  /\ CASE outcome = "ok" ->
            \E id \in CreatedConvIds :
              /\ conversationId' = SetState(conversationId, id)
              /\ storedConvId' = id
              /\ NewWebSocket(id)
              /\ toast' = NoVal
              /\ UNCHANGED <<accessToken, refreshToken, location>>
       [] outcome = "unauthorized" ->
            /\ accessToken' = "none"
            /\ refreshToken' = FALSE
            /\ storedConvId' = NoVal
            /\ toast' = "Authentication expired. Please log in again."
            /\ location' = "login"
            /\ UNCHANGED <<conversationId, sockets, wsRef>>
       [] OTHER ->
            \* throw new Error('Failed to create conversation'), or fetch rejected
            /\ toast' = "Failed to connect to AI assistant"
            /\ UNCHANGED <<conversationId, storageVars, sockets, wsRef>>
  /\ UNCHANGED <<phase, chatVars, timerVars, isConnected, closureConvId, sent>>

(***************************************************************************)
(* Socket events.                                                          *)
(***************************************************************************)
\* WebSocket.send: a frame leaves on an OPEN socket and is dropped on a CLOSING or
\* CLOSED one (on a CONNECTING one send throws, see the callers)
Send(s, frame) ==
  IF sockets[s].readyState = "OPEN"
    THEN Append(sent, [socket |-> s] @@ frame)
    ELSE sent

\* Mutant of SocketOpen: the handler starts the heartbeat and sends no subscribe frame
SocketOpenWithoutSubscribe(s) ==
  /\ Running
  /\ stepEvent' = NoStepEvent
  /\ event' = NoEvent
  /\ UNCHANGED <<thinkingVars, announcedConvId, authRequests>>
  /\ sockets[s].readyState = "CONNECTING"
  /\ isConnected' = SetState(isConnected, TRUE)
  /\ sent' = sent
  /\ sockets' = [sockets EXCEPT ![s].readyState = "OPEN", ![s].heartbeatInterval = TRUE]
  /\ toast' = NoVal
  /\ UNCHANGED <<phase, chatVars, storageVars, timerVars, conversationId, closureConvId, wsRef, pendingCreates>>

\* ws.onopen
SocketOpen(s) ==
  /\ Running
  /\ stepEvent' = NoStepEvent
  /\ event' = NoEvent
  /\ UNCHANGED <<thinkingVars, announcedConvId, authRequests>>
  /\ sockets[s].readyState = "CONNECTING"
  /\ isConnected' = SetState(isConnected, TRUE)
  /\ sent' = Append(sent, [socket |-> s, type |-> "subscribe",
                           conversation_id |-> sockets[s].convId,
                           content |-> <<>>, step_id |-> NoVal])
  /\ sockets' = [sockets EXCEPT ![s].readyState = "OPEN", ![s].heartbeatInterval = TRUE]
  /\ toast' = NoVal
  /\ UNCHANGED <<phase, chatVars, storageVars, timerVars, conversationId, closureConvId, wsRef, pendingCreates>>

\* ws.onerror: the connection failed, the close event follows
SocketError(s) ==
  /\ Running
  /\ stepEvent' = NoStepEvent
  /\ event' = NoEvent
  /\ UNCHANGED <<thinkingVars, announcedConvId, authRequests>>
  /\ sockets[s].readyState \in {"CONNECTING", "OPEN"}
  /\ isConnected' = SetState(isConnected, FALSE)
  /\ sockets' = [sockets EXCEPT ![s].readyState = "CLOSING", ![s].closeCodes = {1006}]
  /\ toast' = NoVal
  /\ UNCHANGED <<phase, chatVars, storageVars, timerVars, conversationId, closureConvId, wsRef, pendingCreates, sent>>

\* The codes the close event of socket s can carry
CloseCodes(s) ==
  CASE sockets[s].readyState = "CONNECTING" -> {1006}
    [] sockets[s].readyState = "OPEN" -> ServerCloseCodes
    [] sockets[s].readyState = "CLOSING" -> sockets[s].closeCodes
    [] OTHER -> {}

\* Mutant of ShouldReconnect: a normal closure reconnects too
ShouldReconnectUnlessAuth(code) == code # PolicyViolation

\* event.code !== 1000 && event.code !== 1008
ShouldReconnect(code) == code # NormalClosure /\ code # PolicyViolation

\* setTimeout(..., 3000) of ws.onclose
ScheduleReconnect == Append(reconnectTimers, [rem |-> ReconnectDelay, waited |-> 0])

\* ws.onclose
SocketClose(s, code) ==
  /\ Running
  /\ stepEvent' = NoStepEvent
  /\ event' = NoEvent
  /\ UNCHANGED <<thinkingVars, announcedConvId, authRequests>>
  /\ code \in CloseCodes(s)
  /\ isConnected' = SetState(isConnected, FALSE)
  /\ sockets' = [sockets EXCEPT ![s].readyState = "CLOSED", ![s].heartbeatInterval = FALSE,
                                ![s].code = code]
  /\ reconnectTimers' = IF ShouldReconnect(code) THEN ScheduleReconnect ELSE reconnectTimers
  /\ toast' = NoVal
  /\ UNCHANGED <<phase, chatVars, storageVars, stepTimers, conversationId, closureConvId, wsRef, pendingCreates, sent>>

\* The callback of the reconnect timeout
ReconnectTimerFire ==
  /\ Running
  /\ stepEvent' = NoStepEvent
  /\ event' = NoEvent
  /\ UNCHANGED <<thinkingVars, announcedConvId, authRequests>>
  /\ reconnectTimers # <<>>
  /\ Head(reconnectTimers).rem = 0
  /\ reconnectTimers' = Tail(reconnectTimers)
  /\ IF wsRef = 0 \/ sockets[wsRef].readyState = "CLOSED"
       THEN InitializeWebSocket
       ELSE toast' = NoVal /\ UNCHANGED <<sockets, wsRef, pendingCreates>>
  /\ UNCHANGED <<phase, chatVars, storageVars, stepTimers, isConnected, conversationId,
                 closureConvId, sent>>

\* The callback of the heartbeat interval that ws.onopen of socket s set
Heartbeat(s) ==
  /\ Running
  /\ stepEvent' = NoStepEvent
  /\ event' = [kind |-> "heartbeat", detail |-> NoVal]
  /\ UNCHANGED <<thinkingVars, announcedConvId, authRequests>>
  /\ sockets[s].heartbeatInterval
  /\ Cardinality({i \in DOMAIN sent : sent[i].type = "ping"}) < MaxPings
  /\ sent' = IF sockets[s].readyState = "OPEN"
               THEN Append(sent, [socket |-> s, type |-> "ping", conversation_id |-> NoVal,
                                  content |-> <<>>, step_id |-> NoVal])
               ELSE sent
  /\ toast' = NoVal
  /\ UNCHANGED <<phase, chatVars, storageVars, connVars, timerVars, conversationId,
                 closureConvId>>

\* The rotation effect holds an interval while the component is mounted and
\* isTyping.is_typing is true: its cleanup clears it when either changes
RotationInterval == phase = "mounted" /\ isTyping.is_typing

\* Mutant of RotationTick: the index advances without wrapping around
RotationTickWithoutWrap ==
  /\ Running
  /\ stepEvent' = NoStepEvent
  /\ event' = [kind |-> "rotation", detail |-> NoVal]
  /\ UNCHANGED <<announcedConvId, authRequests>>
  /\ RotationInterval
  /\ currentThinkingMessage' = currentThinkingMessage + 1
  /\ UNCHANGED thinkingMessages
  /\ toast' = NoVal
  /\ UNCHANGED <<phase, chatVars, storageVars, connVars, timerVars, conversationId,
                 closureConvId, sent>>

\* The callback of the rotation interval
RotationTick ==
  /\ Running
  /\ stepEvent' = NoStepEvent
  /\ event' = [kind |-> "rotation", detail |-> NoVal]
  /\ UNCHANGED <<announcedConvId, authRequests>>
  /\ RotationInterval
  /\ currentThinkingMessage' = (currentThinkingMessage + 1) % Len(thinkingMessages)
  /\ UNCHANGED thinkingMessages
  /\ toast' = NoVal
  /\ UNCHANGED <<phase, chatVars, storageVars, connVars, timerVars, conversationId,
                 closureConvId, sent>>

\* WebSocket.close() without a code
Close(s) ==
  IF sockets[s].readyState \in {"CONNECTING", "OPEN"}
    THEN [sockets EXCEPT ![s].readyState = "CLOSING",
                         ![s].closeCodes = IF sockets[s].readyState = "OPEN"
                                             THEN ClientCloseCodes ELSE {1006}]
    ELSE sockets

\* The cleanup of the mount effect
Unmount ==
  /\ Running
  /\ stepEvent' = NoStepEvent
  /\ event' = NoEvent
  /\ UNCHANGED <<thinkingVars, announcedConvId, authRequests>>
  /\ phase = "mounted"
  /\ phase' = "unmounted"
  /\ sockets' = IF wsRef # 0 THEN Close(wsRef) ELSE sockets
  /\ toast' = NoVal
  /\ UNCHANGED <<chatVars, storageVars, timerVars, isConnected, conversationId, closureConvId, wsRef, pendingCreates, sent>>

\* One unit of time passes: no timeout is overdue
Tick ==
  /\ Running
  /\ stepEvent' = NoStepEvent
  /\ event' = NoEvent
  /\ UNCHANGED <<thinkingVars, announcedConvId, authRequests>>
  /\ stepTimers # <<>> \/ reconnectTimers # <<>>
  /\ \A i \in DOMAIN stepTimers : stepTimers[i].rem > 0
  /\ \A i \in DOMAIN reconnectTimers : reconnectTimers[i].rem > 0
  /\ stepTimers' = [i \in DOMAIN stepTimers |->
                      [stepTimers[i] EXCEPT !.rem = @ - 1]]
  /\ reconnectTimers' = [i \in DOMAIN reconnectTimers |->
                           [reconnectTimers[i] EXCEPT !.rem = @ - 1, !.waited = @ + 1]]
  /\ toast' = NoVal
  /\ UNCHANGED <<phase, chatVars, storageVars, connVars, conversationId, closureConvId, sent>>

(***************************************************************************)
(* ws.onmessage: one action per frame type.  A message event is delivered  *)
(* only while the socket is OPEN.                                          *)
(***************************************************************************)
Delivering == Running /\ \E s \in DOMAIN sockets : sockets[s].readyState = "OPEN"

\* The history count of the frames that are defined to append a message
CountAppendFrame == IF phase = "mounted" THEN nAppendFrames + 1 ELSE nAppendFrames

\* messages.find(msg => msg.type === 'execution_plan')
existingExecutionPlan ==
  \E i \in DOMAIN ClosureMessages : ClosureMessages[i].type = "execution_plan"

shouldCreateExecutionPlan(content) == IsExecutionPlan(content) /\ ~existingExecutionPlan

\* The message the ai_response branch appends
AiMessage(content, timestamp) ==
  IF ~IsStepResult(content) /\ shouldCreateExecutionPlan(content)
    THEN [id |-> MessageId(timestamp), type |-> "execution_plan", content |-> content,
          executionPlan |-> <<NewPlan>>]
    ELSE [id |-> MessageId(timestamp), type |-> "ai", content |-> content,
          executionPlan |-> NoPlan]

\* Mutant of OnAiResponse: the step-result path updates the steps and appends nothing
OnAiResponseAbsorbsStepResult(content, timestamp) ==
  /\ Delivering
  /\ stepEvent' = NoStepEvent
  /\ event' = NoEvent
  /\ UNCHANGED <<thinkingVars, announcedConvId, authRequests>>
  /\ Len(messages) < MaxMsgs
  /\ messages' = SetState(messages,
       IF IsStepResult(content)
         THEN ResolveExecuting(messages, StepResultStatus(content))
         ELSE Append(messages, AiMessage(content, timestamp)))
  /\ isTyping' = SetState(isTyping, NotTyping)
  /\ nAppendFrames' = CountAppendFrame
  /\ toast' = NoVal
  /\ UNCHANGED <<phase, storageVars, connVars, timerVars, conversationId, closureConvId,
                 sent>>

\* case 'ai_response'
OnAiResponse(content, timestamp) ==
  /\ Delivering
  /\ stepEvent' = NoStepEvent
  /\ event' = NoEvent
  /\ UNCHANGED <<thinkingVars, announcedConvId, authRequests>>
  /\ Len(messages) < MaxMsgs
  /\ messages' = SetState(messages,
       IF IsStepResult(content)
         THEN Append(ResolveExecuting(messages, StepResultStatus(content)),
                     AiMessage(content, timestamp))
         ELSE Append(messages, AiMessage(content, timestamp)))
  /\ isTyping' = SetState(isTyping, NotTyping)
  /\ nAppendFrames' = CountAppendFrame
  /\ toast' = NoVal
  /\ UNCHANGED <<phase, storageVars, connVars, timerVars, conversationId, closureConvId, sent>>

\* data.operation || currentIntent || data.intent
ThinkingKey(operation, intent) ==
  IF Truthy(operation) THEN operation
  ELSE IF Truthy(ClosureIntent) THEN ClosureIntent
  ELSE intent

\* case 'typing_indicator'; when getContextAwareThinkingMessages throws, the handler
\* ends there, after the update of isTyping
OnTypingIndicator(is_typing, agent, operation, intent) ==
  /\ Delivering
  /\ stepEvent' = NoStepEvent
  /\ event' = [kind |-> "typing_indicator", detail |-> ThinkingKey(operation, intent)]
  /\ UNCHANGED <<announcedConvId, authRequests>>
  /\ isTyping' = SetState(isTyping,
                          [is_typing |-> is_typing, agent |-> agent,
                           operation |-> operation])
  /\ LET contextMessages ==
           getContextAwareThinkingMessages(ThinkingKey(operation, intent), agent)
     IN IF is_typing /\ ~contextMessages.threw
          THEN /\ thinkingMessages' = SetState(thinkingMessages, contextMessages.list)
               /\ currentThinkingMessage' = SetState(currentThinkingMessage, 0)
          ELSE UNCHANGED thinkingVars
  /\ toast' = NoVal
  /\ UNCHANGED <<phase, messages, nAppendFrames, storageVars, connVars, timerVars, conversationId, closureConvId, sent>>

\* case 'step_completed'
OnStepCompleted(step_id) ==
  /\ Delivering
  /\ stepEvent' = [type |-> "step_completed", step_id |-> step_id]
  /\ event' = NoEvent
  /\ UNCHANGED <<thinkingVars, announcedConvId, authRequests>>
  /\ messages' = SetState(messages, SetStepStatus(messages, step_id, "completed"))
  /\ toast' = NoVal
  /\ UNCHANGED <<phase, isTyping, nAppendFrames, storageVars, connVars, timerVars, conversationId, closureConvId, sent>>

\* case 'step_failed'
OnStepFailed(step_id) ==
  /\ Delivering
  /\ stepEvent' = [type |-> "step_failed", step_id |-> step_id]
  /\ event' = NoEvent
  /\ UNCHANGED <<thinkingVars, announcedConvId, authRequests>>
  /\ messages' = SetState(messages, SetStepStatus(messages, step_id, "failed"))
  /\ toast' = "Step failed"
  /\ UNCHANGED <<phase, isTyping, nAppendFrames, storageVars, connVars, timerVars,
                 conversationId, closureConvId, sent>>

\* Mutant of OnError: the error is also appended to the message list
OnErrorAppendsMessage(message) ==
  /\ Delivering
  /\ stepEvent' = NoStepEvent
  /\ event' = [kind |-> "error", detail |-> message]
  /\ UNCHANGED <<thinkingVars, announcedConvId, authRequests>>
  /\ toast' = IF message = NoVal THEN "An error occurred" ELSE message
  /\ isTyping' = SetState(isTyping, NotTyping)
  /\ Len(messages) < MaxMsgs
  /\ messages' = SetState(messages,
       Append(messages, [id |-> Now, type |-> "system", content |-> <<"error">>,
                         executionPlan |-> NoPlan]))
  /\ UNCHANGED <<phase, nAppendFrames, storageVars, connVars, timerVars,
                 conversationId, closureConvId, sent>>

\* case 'error'
OnError(message) ==
  /\ Delivering
  /\ stepEvent' = NoStepEvent
  /\ event' = [kind |-> "error", detail |-> message]
  /\ UNCHANGED <<thinkingVars, announcedConvId, authRequests>>
  /\ toast' = IF message = NoVal THEN "An error occurred" ELSE message
  /\ isTyping' = SetState(isTyping, NotTyping)
  /\ UNCHANGED <<phase, messages, nAppendFrames, storageVars, connVars, timerVars,
                 conversationId, closureConvId, sent>>

\* data.message || `Starting intelligent error recovery for ...` of recovery_started;
\* data.message of the other recovery frames
RecoveryContent(type, message) ==
  IF type = "recovery_started" /\ message = <<>>
    THEN <<"[wrench]", " ", "Starting intelligent error recovery">>
    ELSE message

\* Mutant of OnRecovery: a recovery frame also ends the typing indicator
OnRecoveryStopsTyping(type, message, timestamp) ==
  /\ Delivering
  /\ stepEvent' = NoStepEvent
  /\ event' = [kind |-> "recovery", detail |-> type]
  /\ UNCHANGED <<thinkingVars, announcedConvId, authRequests>>
  /\ Len(messages) < MaxMsgs
  /\ messages' = SetState(messages,
       Append(messages, [id |-> MessageId(timestamp), type |-> "system",
                         content |-> RecoveryContent(type, message),
                         executionPlan |-> NoPlan]))
  /\ nAppendFrames' = CountAppendFrame
  /\ toast' = NoVal
  /\ isTyping' = SetState(isTyping, NotTyping)
  /\ UNCHANGED <<phase, storageVars, connVars, timerVars, conversationId, closureConvId, sent>>

\* case 'recovery_started', 'recovery_progress', 'recovery_success', 'recovery_escalated'
OnRecovery(type, message, timestamp) ==
  /\ Delivering
  /\ stepEvent' = NoStepEvent
  /\ event' = [kind |-> "recovery", detail |-> type]
  /\ UNCHANGED <<thinkingVars, announcedConvId, authRequests>>
  /\ Len(messages) < MaxMsgs
  /\ messages' = SetState(messages,
       Append(messages, [id |-> MessageId(timestamp), type |-> "system",
                         content |-> RecoveryContent(type, message),
                         executionPlan |-> NoPlan]))
  /\ nAppendFrames' = CountAppendFrame
  /\ toast' = NoVal
  /\ UNCHANGED <<phase, isTyping, storageVars, connVars, timerVars, conversationId, closureConvId, sent>>

\* case 'conversation_created'
OnConversationCreated(conversation_id) ==
  /\ Delivering
  /\ stepEvent' = NoStepEvent
  /\ event' = NoEvent
  /\ UNCHANGED <<thinkingVars, authRequests>>
  /\ announcedConvId' = conversation_id
  /\ storedConvId' = conversation_id
  /\ conversationId' = SetState(conversationId, conversation_id)
  /\ toast' = "New conversation started"
  /\ UNCHANGED <<phase, chatVars, accessToken, refreshToken, location, connVars,
                 timerVars, closureConvId, sent>>

\* case 'pong'
OnPong ==
  /\ Delivering
  /\ stepEvent' = NoStepEvent
  /\ event' = NoEvent
  /\ UNCHANGED <<thinkingVars, announcedConvId, authRequests>>
  /\ toast' = NoVal
  /\ UNCHANGED <<phase, chatVars, storageVars, connVars, timerVars, conversationId,
                 closureConvId, sent>>

\* default: an unknown frame type is logged
OnUnknown ==
  /\ Delivering
  /\ stepEvent' = NoStepEvent
  /\ event' = NoEvent
  /\ UNCHANGED <<thinkingVars, announcedConvId, authRequests>>
  /\ toast' = NoVal
  /\ UNCHANGED <<phase, chatVars, storageVars, connVars, timerVars, conversationId,
                 closureConvId, sent>>

(***************************************************************************)
(* User operations.                                                        *)
(***************************************************************************)
\* !wsRef.current || !isConnected || !conversationId
NotReady == wsRef = 0 \/ ~isConnected \/ conversationId = NoVal

UserMessage(content) ==
  [id |-> Now, type |-> "user", content |-> content, executionPlan |-> NoPlan]

\* Mutant of UserFrame: the frame names the conversation id of the first render
UserFrameStaleConversation(content, step_id) ==
  [type |-> "user_message", conversation_id |-> closureConvId, content |-> content,
   step_id |-> step_id]

UserFrame(content, step_id) ==
  [type |-> "user_message", conversation_id |-> conversationId, content |-> content,
   step_id |-> step_id]

\* send throws InvalidStateError on a socket that is still CONNECTING: the rest of
\* the calling handler does not run
SendThrows == sockets[wsRef].readyState = "CONNECTING"

sendMessage(inputMessage) ==
  /\ Running
  /\ stepEvent' = NoStepEvent
  /\ UNCHANGED <<announcedConvId, authRequests>>
  /\ phase = "mounted"
  /\ IF Trim(inputMessage) = <<>> \/ NotReady
       THEN /\ event' = NoEvent
            /\ UNCHANGED <<messages, sent, isTyping, thinkingVars>>
       ELSE /\ Len(messages) < MaxMsgs
            /\ event' = [kind |-> "sendMessage", detail |-> predictIntent(Trim(inputMessage))]
            /\ messages' = Append(messages, UserMessage(Trim(inputMessage)))
            /\ sent' = Send(wsRef, UserFrame(Trim(inputMessage), NoVal))
            /\ thinkingMessages' =
                 IF SendThrows THEN thinkingMessages
                 ELSE getContextAwareThinkingMessages(predictIntent(Trim(inputMessage)),
                                                      "Victor").list
            /\ currentThinkingMessage' = IF SendThrows THEN currentThinkingMessage ELSE 0
            /\ isTyping' = IF SendThrows THEN isTyping
                           ELSE [is_typing |-> TRUE, agent |-> "Victor", operation |-> NoVal]
  /\ toast' = NoVal
  /\ UNCHANGED <<phase, nAppendFrames, storageVars, connVars, timerVars, conversationId, closureConvId>>

ResponseText(response) ==
  CASE response = "approve" -> <<"yes">>
    [] response = "reject" -> <<"no">>
    [] OTHER -> <<"modify">>

\* The approval buttons are rendered for a plan message awaiting approval whose
\* content does not mention deploy
ApprovalButtonsShown ==
  \E i \in DOMAIN messages :
    /\ messages[i].type = "execution_plan"
    /\ messages[i].executionPlan # NoPlan
    /\ messages[i].executionPlan[1].status = "awaiting_approval"
    /\ ~Includes(ToLowerCase(messages[i].content), DeployWord)

\* Mutant of sendExecutionResponse: the response marks the plans approved
sendExecutionResponseApproves(response) ==
  /\ Running
  /\ stepEvent' = NoStepEvent
  /\ event' = NoEvent
  /\ UNCHANGED <<thinkingVars, announcedConvId, authRequests>>
  /\ phase = "mounted"
  /\ ApprovalButtonsShown
  /\ IF NotReady
       THEN UNCHANGED <<messages, sent, isTyping>>
       ELSE /\ Len(messages) < MaxMsgs
            /\ messages' =
                 Append([i \in DOMAIN messages |->
                           IF HasPlan(messages[i])
                             THEN [messages[i] EXCEPT !.executionPlan[1].status = "approved"]
                             ELSE messages[i]],
                        UserMessage(ResponseText(response)))
            /\ sent' = Send(wsRef, UserFrame(ResponseText(response), NoVal))
            /\ isTyping' = IF SendThrows THEN isTyping
                           ELSE [is_typing |-> TRUE, agent |-> "Victor", operation |-> NoVal]
  /\ toast' = NoVal
  /\ UNCHANGED <<phase, nAppendFrames, storageVars, connVars, timerVars, conversationId, closureConvId>>

sendExecutionResponse(response) ==
  /\ Running
  /\ stepEvent' = NoStepEvent
  /\ event' = NoEvent
  /\ UNCHANGED <<thinkingVars, announcedConvId, authRequests>>
  /\ phase = "mounted"
  /\ ApprovalButtonsShown
  /\ IF NotReady
       THEN UNCHANGED <<messages, sent, isTyping>>
       ELSE /\ Len(messages) < MaxMsgs
            /\ messages' = Append(messages, UserMessage(ResponseText(response)))
            /\ sent' = Send(wsRef, UserFrame(ResponseText(response), NoVal))
            /\ isTyping' = IF SendThrows THEN isTyping
                           ELSE [is_typing |-> TRUE, agent |-> "Victor", operation |-> NoVal]
  /\ toast' = NoVal
  /\ UNCHANGED <<phase, nAppendFrames, storageVars, connVars, timerVars, conversationId, closureConvId>>

\* getStepDisplayName of StepExecutionPanel
getStepDisplayName(step) ==
  CASE step.service = "mercury" /\ step.action = "analyze_repository" -> "Analyze Repo"
    [] step.service = "atlas" /\ step.action = "provision_infrastructure" -> "Provision"
    [] step.service = "neptune" /\ step.action = "create_dns_record" -> "Config DNS"
    [] step.service = "hermes" /\ step.action = "generate_ssh_key" -> "SSH Keys"
    [] step.service = "phoenix" /\ step.action = "deploy_application" -> "Deploy App"
    [] OTHER -> step.service

\* The button of a step is disabled while the step is executing, completed or failed
StepButtonEnabled(step) == step.status \notin {"executing", "completed", "failed"}

\* Mutant of executeStep: the step is marked executing but no frame is sent
executeStepWithoutFrame(i, j) ==
  /\ Running
  /\ stepEvent' = NoStepEvent
  /\ UNCHANGED <<thinkingVars, announcedConvId, authRequests>>
  /\ phase = "mounted"
  /\ i \in DOMAIN messages
  /\ HasPlan(messages[i])
  /\ j \in DOMAIN messages[i].executionPlan[1].steps
  /\ StepButtonEnabled(messages[i].executionPlan[1].steps[j])
  /\ event' = [kind |-> "executeStep", detail |-> messages[i].executionPlan[1].steps[j].id]
  /\ LET step == messages[i].executionPlan[1].steps[j]
         stepMessage == ExecuteStepMarker \o <<" ", getStepDisplayName(step)>>
     IN IF NotReady
          THEN UNCHANGED <<messages, sent, isTyping, stepTimers>>
          ELSE /\ Len(messages) < MaxMsgs
               /\ messages' = Append(SetStepStatus(messages, step.id, "executing"),
                                     UserMessage(stepMessage))
               /\ sent' = sent
               /\ stepTimers' = IF SendThrows THEN stepTimers
                                ELSE Append(stepTimers, [stepId |-> step.id,
                                                         rem |-> StepFallbackDelay])
               /\ isTyping' = IF SendThrows THEN isTyping
                              ELSE [is_typing |-> TRUE, agent |-> "Victor",
                                    operation |-> <<"Executing", getStepDisplayName(step)>>]
  /\ toast' = NoVal
  /\ UNCHANGED <<phase, nAppendFrames, storageVars, connVars, reconnectTimers, conversationId, closureConvId>>

\* A click on the button of step j of the plan of message i: executeStep(stepId, stepName)
executeStep(i, j) ==
  /\ Running
  /\ stepEvent' = NoStepEvent
  /\ UNCHANGED <<thinkingVars, announcedConvId, authRequests>>
  /\ phase = "mounted"
  /\ i \in DOMAIN messages
  /\ HasPlan(messages[i])
  /\ j \in DOMAIN messages[i].executionPlan[1].steps
  /\ StepButtonEnabled(messages[i].executionPlan[1].steps[j])
  /\ event' = [kind |-> "executeStep", detail |-> messages[i].executionPlan[1].steps[j].id]
  /\ LET step == messages[i].executionPlan[1].steps[j]
         stepMessage == ExecuteStepMarker \o <<" ", getStepDisplayName(step)>>
     IN IF NotReady
          THEN UNCHANGED <<messages, sent, isTyping, stepTimers>>
          ELSE /\ Len(messages) < MaxMsgs
               /\ messages' = Append(SetStepStatus(messages, step.id, "executing"),
                                     UserMessage(stepMessage))
               /\ sent' = Send(wsRef, UserFrame(stepMessage, step.id))
               /\ stepTimers' = IF SendThrows THEN stepTimers
                                ELSE Append(stepTimers, [stepId |-> step.id,
                                                         rem |-> StepFallbackDelay])
               /\ isTyping' = IF SendThrows THEN isTyping
                              ELSE [is_typing |-> TRUE, agent |-> "Victor",
                                    operation |-> <<"Executing", getStepDisplayName(step)>>]
  /\ toast' = NoVal
  /\ UNCHANGED <<phase, nAppendFrames, storageVars, connVars, reconnectTimers, conversationId, closureConvId>>

\* Mutant of StepTimerFire: the callback leaves the step as it is
StepTimerFireLeavesStatus ==
  /\ Running
  /\ stepEvent' = NoStepEvent
  /\ event' = NoEvent
  /\ UNCHANGED <<thinkingVars, announcedConvId, authRequests>>
  /\ stepTimers # <<>>
  /\ Head(stepTimers).rem = 0
  /\ stepTimers' = Tail(stepTimers)
  /\ messages' = messages
  /\ toast' = NoVal
  /\ UNCHANGED <<phase, isTyping, nAppendFrames, storageVars, connVars, reconnectTimers, conversationId, closureConvId, sent>>

\* The callback of the fallback timeout of executeStep
StepTimerFire ==
  /\ Running
  /\ stepEvent' = NoStepEvent
  /\ event' = NoEvent
  /\ UNCHANGED <<thinkingVars, announcedConvId, authRequests>>
  /\ stepTimers # <<>>
  /\ Head(stepTimers).rem = 0
  /\ stepTimers' = Tail(stepTimers)
  /\ messages' = SetState(messages,
                          SetStepStatus(messages, Head(stepTimers).stepId, "completed"))
  /\ toast' = NoVal
  /\ UNCHANGED <<phase, isTyping, nAppendFrames, storageVars, connVars, reconnectTimers, conversationId, closureConvId, sent>>

(***************************************************************************)
(* The auth client of src/src/services/authAPI.ts: the requests made       *)
(* through authClient and its response interceptor.  A url is a sequence   *)
(* of path segments.                                                       *)
(***************************************************************************)
RefreshUrl == <<"/refresh">>

\* A request handed to authClient: parent is the request whose interceptor issued
\* it (0 for a call of authAPI), attempts counts its transmissions, status is the
\* last response to it, errorOf the request whose error it was rejected with
AuthRequest(url, parent) ==
  [url |-> url, parent |-> parent, state |-> "pending", retry |-> FALSE,
   attempts |-> 1, status |-> NoVal, errorOf |-> 0]

\* A call of authAPI: getCurrentUser and the other methods, or refreshToken
AuthCall(url) ==
  /\ Cardinality({r \in DOMAIN authRequests : authRequests[r].parent = 0}) < MaxAuthCalls
  /\ authRequests' = Append(authRequests, AuthRequest(url, 0))
  /\ toast' = NoVal
  /\ stepEvent' = NoStepEvent
  /\ event' = NoEvent
  /\ UNCHANGED <<phase, chatVars, storageVars, connVars, timerVars, thinkingVars,
                 conversationId, closureConvId, sent, announcedConvId>>

\* Mutant of ShouldRefresh: the interceptor does not look at _retry
ShouldRefreshEveryTime(request, status) ==
  /\ ~Includes(request.url, RefreshUrl)
  /\ status = "unauthorized"

\* The response interceptor goes on to refresh: the request is not the refresh
\* endpoint, the response is a 401 and the request was not retried yet
ShouldRefresh(request, status) ==
  /\ ~Includes(request.url, RefreshUrl)
  /\ status = "unauthorized"
  /\ ~request.retry

\* The response to request r arrives: "ok" is a 2xx response with the data wrapper,
\* "empty" a 2xx response without it, "unauthorized" a 401, "failed" any other error
AuthRespond(r, status) ==
  /\ authRequests[r].state = "pending"
  /\ toast' = NoVal
  /\ stepEvent' = NoStepEvent
  /\ event' = NoEvent
  /\ LET request == authRequests[r]
         parent == request.parent
     IN CASE status \in {"ok", "empty"} /\ parent = 0 ->
               \* (response) => response
               /\ authRequests' = [authRequests EXCEPT ![r].state = "resolved",
                                                       ![r].status = status]
               /\ UNCHANGED <<accessToken, refreshToken>>
          [] status = "ok" /\ parent # 0 ->
               \* the tokens are stored and the original request is sent again
               /\ authRequests' = [authRequests EXCEPT ![r].state = "resolved",
                                                       ![r].status = status,
                                                       ![parent].state = "pending",
                                                       ![parent].attempts = @ + 1]
               /\ accessToken' = "valid"
               /\ refreshToken' = TRUE
          [] status = "empty" /\ parent # 0 ->
               \* refreshToken returns undefined: response.access_token throws
               \* inside the try block
               /\ authRequests' = [authRequests EXCEPT ![r].state = "resolved",
                                                       ![r].status = status,
                                                       ![parent].state = "rejected",
                                                       ![parent].status = "TypeError",
                                                       ![parent].errorOf = r]
               /\ accessToken' = "none"
               /\ refreshToken' = FALSE
          [] status \in {"unauthorized", "failed"} /\ Includes(request.url, RefreshUrl)
               /\ parent = 0 ->
               /\ authRequests' = [authRequests EXCEPT ![r].state = "rejected",
                                                       ![r].status = status,
                                                       ![r].errorOf = r]
               /\ UNCHANGED <<accessToken, refreshToken>>
          [] status \in {"unauthorized", "failed"} /\ Includes(request.url, RefreshUrl)
               /\ parent # 0 ->
               \* catch (refreshError)
               /\ authRequests' = [authRequests EXCEPT ![r].state = "rejected",
                                                       ![r].status = status,
                                                       ![r].errorOf = r,
                                                       ![parent].state = "rejected",
                                                       ![parent].errorOf = r]
               /\ accessToken' = "none"
               /\ refreshToken' = FALSE
          [] OTHER ->
               IF ShouldRefresh(request, status)
                 THEN IF refreshToken
                        THEN /\ authRequests' =
                                  Append([authRequests EXCEPT
                                            ![r].state = "awaiting_refresh",
                                            ![r].status = status,
                                            ![r].retry = TRUE],
                                         AuthRequest(RefreshUrl, r))
                             /\ UNCHANGED <<accessToken, refreshToken>>
                        ELSE /\ authRequests' = [authRequests EXCEPT
                                                   ![r].state = "rejected",
                                                   ![r].status = status,
                                                   ![r].retry = TRUE,
                                                   ![r].errorOf = r]
                             /\ UNCHANGED <<accessToken, refreshToken>>
                 ELSE /\ authRequests' = [authRequests EXCEPT ![r].state = "rejected",
                                                              ![r].status = status,
                                                              ![r].errorOf = r]
                      /\ UNCHANGED <<accessToken, refreshToken>>
  /\ UNCHANGED <<phase, chatVars, storedConvId, location, connVars, timerVars,
                 thinkingVars, conversationId, closureConvId, sent, announcedConvId>>

(***************************************************************************)
(* The specification.                                                      *)
(***************************************************************************)
\* The operations on the message list, the plans and the typing indicator, on a
\* mounted session whose connection is set up and stays up
NextChat ==
  \/ Mount
  \/ \E outcome \in FetchOutcomes : FetchReturn(outcome)
  \/ \E s \in DOMAIN sockets : SocketOpen(s)
  \/ StepTimerFire
  \/ Tick
  \/ \E content \in AiContents, timestamp \in AiTimestamps :
       OnAiResponse(content, timestamp)
  \/ \E is_typing \in StoppedTyping, agent \in TypingAgents, intent \in TypingIntents :
       OnTypingIndicator(is_typing, agent, NoVal, intent)
  \/ \E step_id \in EventStepIds : OnStepCompleted(step_id)
  \/ \E step_id \in EventStepIds : OnStepFailed(step_id)
  \/ \E message \in ErrorMessages : OnError(message)
  \/ \E type \in RecoveryTypes, message \in RecoveryMessages,
        timestamp \in RecoveryTimestamps :
       OnRecovery(type, message, timestamp)
  \/ OnPong
  \/ OnUnknown
  \/ \E inputMessage \in UserInputs : sendMessage(inputMessage)
  \/ \E response \in ExecutionResponses : sendExecutionResponse(response)
  \/ \E i \in 1..MaxMsgs, j \in ClickedSteps : executeStep(i, j)

\* The life cycle of the connection: setup, open, error, close, reconnect, unmount
NextTransport ==
  \/ Mount
  \/ Unmount
  \/ \E outcome \in FetchOutcomes : FetchReturn(outcome)
  \/ \E s \in DOMAIN sockets : SocketOpen(s)
  \/ \E s \in DOMAIN sockets : SocketError(s)
  \/ \E s \in DOMAIN sockets : \E code \in ServerCloseCodes \cup ClientCloseCodes :
       SocketClose(s, code)
  \/ ReconnectTimerFire
  \/ Tick
  \/ \E conversation_id \in AnnouncedConvIds : OnConversationCreated(conversation_id)
  \/ \E inputMessage \in UserInputs : sendMessage(inputMessage)

\* The intervals: the heartbeat of a connection and the rotation of the thinking
\* message, over the life cycle of the connection
NextKeepAlive ==
  \/ Mount
  \/ Unmount
  \/ \E outcome \in FetchOutcomes : FetchReturn(outcome)
  \/ \E s \in DOMAIN sockets : SocketOpen(s)
  \/ \E s \in DOMAIN sockets : \E code \in ServerCloseCodes \cup ClientCloseCodes :
       SocketClose(s, code)
  \/ ReconnectTimerFire
  \/ Tick
  \/ \E s \in DOMAIN sockets : Heartbeat(s)
  \/ RotationTick
  \/ \E is_typing \in BOOLEAN, agent \in TypingAgents, intent \in TypingIntents :
       OnTypingIndicator(is_typing, agent, NoVal, intent)

\* The plans over a connection that can drop: the plan frames, the clicks on the
\* step buttons and the fallback timeouts
NextSteps ==
  \/ Mount
  \/ \E outcome \in FetchOutcomes : FetchReturn(outcome)
  \/ \E s \in DOMAIN sockets : SocketOpen(s)
  \/ \E s \in DOMAIN sockets : \E code \in ServerCloseCodes : SocketClose(s, code)
  \/ ReconnectTimerFire
  \/ StepTimerFire
  \/ Tick
  \/ \E content \in AiContents, timestamp \in AiTimestamps :
       OnAiResponse(content, timestamp)
  \/ \E i \in 1..MaxMsgs, j \in ClickedSteps : executeStep(i, j)

\* The thinking messages: the frames and the operation that select the list, and
\* the interval that rotates through it
NextTyping ==
  \/ Mount
  \/ \E outcome \in FetchOutcomes : FetchReturn(outcome)
  \/ \E s \in DOMAIN sockets : SocketOpen(s)
  \/ \E is_typing \in BOOLEAN, agent \in ThinkingAgents,
        operation \in ThinkingOperations, intent \in ThinkingIntents :
       OnTypingIndicator(is_typing, agent, operation, intent)
  \/ \E inputMessage \in ThinkingInputs : sendMessage(inputMessage)
  \/ RotationTick

\* The frames the session sends, over the life cycle of the connection
NextFrames ==
  \/ Mount
  \/ Unmount
  \/ \E outcome \in FetchOutcomes : FetchReturn(outcome)
  \/ \E s \in DOMAIN sockets : SocketOpen(s)
  \/ \E s \in DOMAIN sockets : \E code \in ServerCloseCodes \cup ClientCloseCodes :
       SocketClose(s, code)
  \/ ReconnectTimerFire
  \/ Tick
  \/ \E s \in DOMAIN sockets : Heartbeat(s)
  \/ \E inputMessage \in UserInputs : sendMessage(inputMessage)

\* The auth client: calls of authAPI and the responses to its requests
NextAuth ==
  \/ \E url \in AuthUrls : AuthCall(url)
  \/ \E r \in DOMAIN authRequests, status \in AuthStatuses : AuthRespond(r, status)

\* The steps of a plan over a connection that stays up
NextFallback ==
  \/ Mount
  \/ \E outcome \in FetchOutcomes : FetchReturn(outcome)
  \/ \E s \in DOMAIN sockets : SocketOpen(s)
  \/ StepTimerFire
  \/ Tick
  \/ \E content \in AiContents, timestamp \in AiTimestamps :
       OnAiResponse(content, timestamp)
  \/ \E step_id \in EventStepIds : OnStepCompleted(step_id)
  \/ \E step_id \in EventStepIds : OnStepFailed(step_id)
  \/ \E i \in 1..MaxMsgs, j \in ClickedSteps : executeStep(i, j)

Next ==
  NextChat \/ NextTransport \/ NextKeepAlive \/ NextSteps \/ NextTyping \/ NextFrames
    \/ NextFallback \/ NextAuth

Spec == Init /\ [][Next]_vars

\* A first visit with a valid token: no conversation id is stored yet
InitChat == Init /\ accessToken = "valid" /\ storedConvId = NoVal

SpecChat == InitChat /\ [][NextChat]_vars

SpecTransport == Init /\ [][NextTransport]_vars

\* A visit with a valid token
InitKeepAlive == Init /\ accessToken = "valid"

SpecKeepAlive == InitKeepAlive /\ [][NextKeepAlive]_vars

SpecSteps == InitChat /\ [][NextSteps]_vars

SpecFrames == InitKeepAlive /\ [][NextFrames]_vars

\* The auth client alone, before the chat page is mounted
SpecAuth == Init /\ [][NextAuth]_vars

SpecTyping == InitChat /\ [][NextTyping]_vars

\* That session with timers that run: time passes, and a timeout that is due is
\* called back.  Nothing else is required to happen: no frame has to arrive.
SpecFallback ==
  InitChat /\ [][NextFallback]_vars /\ WF_vars(Tick) /\ WF_vars(StepTimerFire)

(***************************************************************************)
(* Properties.                                                             *)
(***************************************************************************)
PlanMessages == {i \in DOMAIN messages : messages[i].type = "execution_plan"}

\* The positions <<i, j>> of the steps of the plan messages of msgs
StepPositions(msgs) ==
  {p \in (DOMAIN msgs) \X (1..Len(deploymentSteps)) :
     HasPlan(msgs[p[1]]) /\ p[2] \in DOMAIN msgs[p[1]].executionPlan[1].steps}

StepAt(msgs, p) == msgs[p[1]].executionPlan[1].steps[p[2]]

\* The step is one that appended a message of the ai_response branch
AiResponseAppended ==
  /\ Len(messages') = Len(messages) + 1
  /\ messages'[Len(messages')].type \in {"ai", "execution_plan"}

\* Socket s is closed by this step
Closes(s) == sockets[s].readyState # "CLOSED" /\ sockets'[s].readyState = "CLOSED"

\* C1: the message list never holds more than one execution_plan message: an
\* ai_response that matches the plan heuristic while a plan message exists is
\* appended as a plain ai message.
C1_AtMostOnePlanMessage == Cardinality(PlanMessages) <= 1

\* C2: when the fallback timer of executeStep fires for a step that is already
\* completed or failed, the firing leaves that step's status as it is.
C2_FallbackKeepsTerminalStatus ==
  [][(stepTimers # <<>> /\ stepTimers' = Tail(stepTimers)) =>
       \A p \in StepPositions(messages) :
         (/\ StepAt(messages, p).id = Head(stepTimers).stepId
          /\ StepAt(messages, p).status \in {"completed", "failed"})
         => StepAt(messages', p).status = StepAt(messages, p).status]_vars

\* C3: an ai_response whose content has the step-failure marker, or is a step result
\* with a cross mark or the word failed, turns every executing step into failed; a
\* step result with neither turns it into completed.
C3_StepResultStatus ==
  [][AiResponseAppended =>
       LET content == messages'[Len(messages')].content
           stepResult == \/ Includes(content, <<"[check]", " ", "Step", " ", "completed", ":">>)
                         \/ Includes(content, <<"[cross]", " ", "Step", " ", "failed", ":">>)
                         \/ Includes(content, <<"Execute", " ", "step", ":">>)
           failure == Includes(content, <<"[cross]">>) \/ Includes(content, <<"failed">>)
       IN \A p \in StepPositions(messages) :
            StepAt(messages, p).status = "executing" =>
              /\ Includes(content, <<"[cross]", " ", "Step", " ", "failed", ":">>)
                   => StepAt(messages', p).status = "failed"
              /\ (stepResult /\ failure) => StepAt(messages', p).status = "failed"
              /\ (stepResult /\ ~failure) => StepAt(messages', p).status = "completed"]_vars

\* C3 witness: step-2, which no step event names, was executing and an ai_response
\* with the step-failure marker made it failed.
C3_Witness ==
  /\ \E p \in StepPositions(messages) :
       StepAt(messages, p).id = "step-2" /\ StepAt(messages, p).status = "failed"
  /\ messages[Len(messages)].type = "ai"
  /\ Includes(messages[Len(messages)].content, StepFailedMarker)

\* C4: a close event with code 1000 schedules no reconnect timeout; one with a code
\* other than 1000 and 1008 schedules exactly one, and a reconnect timeout fires when
\* it has waited the 3 units of the delay.
C4_ReconnectScheduling ==
  [][/\ \A s \in DOMAIN sockets :
          Closes(s) =>
            /\ sockets'[s].code = 1000 => reconnectTimers' = reconnectTimers
            /\ sockets'[s].code \notin {1000, 1008} =>
                 /\ Len(reconnectTimers') = Len(reconnectTimers) + 1
                 /\ SubSeq(reconnectTimers', 1, Len(reconnectTimers)) = reconnectTimers
                 /\ reconnectTimers'[Len(reconnectTimers')].waited = 0
     /\ Len(reconnectTimers') < Len(reconnectTimers) =>
          /\ Head(reconnectTimers).waited = 3
          /\ reconnectTimers' = Tail(reconnectTimers)]_vars

\* C4 witness: the first socket closed with 1006, its reconnect timeout fired and
\* opened a second socket, which closed with 1000 and left no timeout behind.
C4_Witness ==
  /\ Len(sockets) = 2
  /\ sockets[1].readyState = "CLOSED" /\ sockets[1].code = 1006
  /\ sockets[2].readyState = "CLOSED" /\ sockets[2].code = 1000
  /\ reconnectTimers = <<>>

\* C5: once the component is unmounted, no reconnect timeout is scheduled or fires and
\* no WebSocket is created.
C5_NoReconnectAfterTeardown ==
  [][phase = "unmounted" =>
       /\ Len(reconnectTimers') = Len(reconnectTimers)
       /\ Len(sockets') = Len(sockets)]_vars

\* C6: a close event with code 1008 schedules no reconnect, removes access_token and
\* refresh_token and navigates to the login page.
C6_AuthCloseClearsTokens ==
  [][\A s \in DOMAIN sockets :
       (Closes(s) /\ sockets'[s].code = 1008) =>
         /\ reconnectTimers' = reconnectTimers
         /\ accessToken' = "none"
         /\ ~refreshToken'
         /\ location' = "login"]_vars

\* C7: a step id names at most one step of the whole message list.
C7_StepIdResolvesToOneStep ==
  \A p, q \in StepPositions(messages) :
    StepAt(messages, p).id = StepAt(messages, q).id => p = q

\* C8: a step_completed or step_failed frame whose step_id names no step of any plan
\* message changes no message, no step status and not the typing indicator, and the
\* socket that delivered it still delivers frames.
C8_UnmatchedStepEventIsNoOp ==
  [][(/\ stepEvent'.type # NoVal
      /\ \A p \in StepPositions(messages) : StepAt(messages, p).id # stepEvent'.step_id)
     => /\ messages' = messages
        /\ isTyping' = isTyping
        /\ stepTimers' = stepTimers
        /\ sockets' = sockets
        /\ \E s \in DOMAIN sockets' : sockets'[s].readyState = "OPEN"]_vars

\* C8 witness: an unmatched step_failed frame was dispatched while a step of a plan
\* was executing.
C8_Witness ==
  /\ stepEvent = [type |-> "step_failed", step_id |-> "step-9"]
  /\ \E p \in StepPositions(messages) : StepAt(messages, p).status = "executing"

C10_MessageListAppendOnly ==
  [][/\ Len(messages') >= Len(messages)
     /\ \A i \in DOMAIN messages :
          /\ messages'[i].id = messages[i].id
          /\ messages'[i].type = messages[i].type
          /\ messages'[i].content = messages[i].content]_vars

\* C10 witness: the list is full and a step of a plan has left pending, so appends
\* and in-place plan updates have both happened.
C10_Witness ==
  /\ Len(messages) = MaxMsgs
  /\ \E p \in StepPositions(messages) : StepAt(messages, p).status = "completed"
  /\ \E i \in DOMAIN messages : messages[i].type = "user"

\* C11: a step_completed frame dispatched right after a step_completed frame for the
\* same step id changes nothing: the messages, the step statuses, the typing
\* indicator and the timers are those the first dispatch left, and every step the
\* id names is completed.
C11_StepCompletedIdempotent ==
  [][(/\ stepEvent.type = "step_completed"
      /\ stepEvent'.type = "step_completed"
      /\ stepEvent'.step_id = stepEvent.step_id)
     => /\ messages' = messages
        /\ isTyping' = isTyping
        /\ stepTimers' = stepTimers
        /\ sent' = sent
        /\ toast' = NoVal
        /\ \A p \in StepPositions(messages') :
             StepAt(messages', p).id = stepEvent'.step_id
               => StepAt(messages', p).status = "completed"]_vars

\* C11 witness: step_completed for step-1 was dispatched, step-1 is completed, while
\* its fallback timer is still pending and another step is executing.
C11_Witness ==
  /\ stepEvent = [type |-> "step_completed", step_id |-> "step-1"]
  /\ \E p \in StepPositions(messages) :
       StepAt(messages, p).id = "step-1" /\ StepAt(messages, p).status = "completed"
  /\ \E p \in StepPositions(messages) : StepAt(messages, p).status = "executing"
  /\ \E t \in DOMAIN stepTimers : stepTimers[t].stepId = "step-1"

\* C12: a step_completed frame makes the executing step it names completed and
\* changes nothing else of any plan: the other steps, the other fields of the step,
\* the order of the steps and the plan's id, objective, status and
\* totalEstimatedTime stay as they were.
C12_StepCompletedFrame ==
  [][stepEvent'.type = "step_completed" =>
       /\ Len(messages') = Len(messages)
       /\ \A i \in DOMAIN messages :
            IF messages[i].type = "execution_plan" /\ messages[i].executionPlan # <<>>
              THEN LET old == messages[i].executionPlan[1]
                       new == messages'[i].executionPlan[1]
                   IN /\ new.id = old.id
                      /\ new.objective = old.objective
                      /\ new.status = old.status
                      /\ new.totalEstimatedTime = old.totalEstimatedTime
                      /\ Len(new.steps) = Len(old.steps)
                      /\ \A j \in DOMAIN old.steps :
                           /\ [new.steps[j] EXCEPT !.status = old.steps[j].status]
                                = old.steps[j]
                           /\ old.steps[j].id # stepEvent'.step_id
                                => new.steps[j].status = old.steps[j].status
                           /\ (/\ old.steps[j].id = stepEvent'.step_id
                               /\ old.steps[j].status = "executing")
                                => new.steps[j].status = "completed"
              ELSE messages'[i] = messages[i]]_vars

\* C12 witness: step-1 and step-2 were both started, step_completed for step-1 was
\* dispatched before its fallback timer fired: step-1 is completed and step-2 is
\* still executing.
C12_Witness ==
  /\ stepEvent = [type |-> "step_completed", step_id |-> "step-1"]
  /\ \E t \in DOMAIN stepTimers : stepTimers[t].stepId = "step-1"
  /\ \E i \in DOMAIN messages :
       /\ messages[i].type = "execution_plan"
       /\ messages[i].executionPlan[1].steps[1].status = "completed"
       /\ messages[i].executionPlan[1].steps[2].status = "executing"
       /\ messages[i].executionPlan[1].steps[3].status = "pending"

\* C13: an error frame raises one notification with the frame's message, or with the
\* generic text when the frame has none, makes the typing indicator
\* {is_typing: false}, changes no message and no step status, and leaves the
\* connection open, so that later frames are still dispatched.
C13_ErrorFrame ==
  [][event'.kind = "error" =>
       /\ toast' = IF event'.detail = "undefined" THEN "An error occurred"
                                                  ELSE event'.detail
       /\ isTyping'.is_typing = FALSE
       /\ isTyping'.agent = "undefined"
       /\ isTyping'.operation = "undefined"
       /\ messages' = messages
       /\ sockets' = sockets
       /\ wsRef' = wsRef
       /\ reconnectTimers' = reconnectTimers
       /\ location' = "chat"
       /\ \E s \in DOMAIN sockets' : sockets'[s].readyState = "OPEN"]_vars

\* C13 witness: the frame {type: "error", message: "boom"} was dispatched while the
\* typing indicator was set and a step was executing; the notification reads boom.
C13_Witness ==
  /\ event = [kind |-> "error", detail |-> "boom"]
  /\ toast = "boom"
  /\ ~isTyping.is_typing
  /\ \E p \in StepPositions(messages) : StepAt(messages, p).status = "executing"

\* C14: with no execution_plan message in the list, an ai_response that matches the
\* plan heuristic and is not a step result appends one execution_plan message: its
\* plan awaits approval and has the 5 steps mercury/analyze_repository,
\* atlas/provision_infrastructure, neptune/create_dns_record,
\* hermes/generate_ssh_key, phoenix/deploy_application in this order, all pending,
\* with pairwise distinct ids.
C14_PlanSynthesis ==
  [][(/\ AiResponseAppended
      /\ \A i \in DOMAIN messages : messages[i].type # "execution_plan"
      /\ LET content == messages'[Len(messages')].content
         IN /\ \/ Includes(content, <<"[clipboard]", " ", "Execution", " ", "Plan", ":">>)
               \/ Includes(content, <<"deploy">>)
               \/ Includes(content, <<"Deploy", "ment">>)
            /\ ~Includes(content, <<"[check]", " ", "Step", " ", "completed", ":">>)
            /\ ~Includes(content, <<"[cross]", " ", "Step", " ", "failed", ":">>)
            /\ ~Includes(content, <<"Execute", " ", "step", ":">>))
     => LET last == messages'[Len(messages')]
        IN /\ last.type = "execution_plan"
           /\ Len(last.executionPlan) = 1
           /\ last.executionPlan[1].status = "awaiting_approval"
           /\ [j \in DOMAIN last.executionPlan[1].steps |->
                 <<last.executionPlan[1].steps[j].service,
                   last.executionPlan[1].steps[j].action>>]
                = << <<"mercury", "analyze_repository">>,
                     <<"atlas", "provision_infrastructure">>,
                     <<"neptune", "create_dns_record">>,
                     <<"hermes", "generate_ssh_key">>,
                     <<"phoenix", "deploy_application">> >>
           /\ \A j \in DOMAIN last.executionPlan[1].steps :
                last.executionPlan[1].steps[j].status = "pending"
           /\ \A j, k \in DOMAIN last.executionPlan[1].steps :
                last.executionPlan[1].steps[j].id = last.executionPlan[1].steps[k].id
                  => j = k]_vars

\* C14 witness: the last message is the only execution_plan message, just appended
\* for an ai_response with the plan marker, with its 5 steps pending.
C14_Witness ==
  /\ Cardinality(PlanMessages) = 1
  /\ messages[Len(messages)].type = "execution_plan"
  /\ messages[Len(messages)].content = <<"[clipboard]", " ", "Execution", " ", "Plan", ":">>
  /\ Len(messages[Len(messages)].executionPlan[1].steps) = 5
  /\ \A j \in 1..5 : messages[Len(messages)].executionPlan[1].steps[j].status = "pending"

C16_BadTokenBlocksSetup ==
  [][(/\ phase = "init"
      /\ phase' = "mounted"
      /\ \/ accessToken = "none"
         \/ Len(TokenSegments(accessToken)) # 3
         \/ ~TokenSegments(accessToken)[2].json
         \/ TokenSegments(accessToken)[2].user_id = "undefined"
         \/ TokenSegments(accessToken)[2].workspace_id = "undefined")
     => /\ pendingCreates' = pendingCreates
        /\ sockets' = sockets
        /\ reconnectTimers' = reconnectTimers
        /\ toast' # "undefined"]_vars

\* C17: a 401 response to the conversation-creation request removes access_token,
\* refresh_token and the persisted conversation id, navigates to the login page and
\* creates no WebSocket; any other failure creates no WebSocket, raises a
\* notification and leaves the stored tokens in place.
C17_CreationFailure ==
  [][/\ (event'.kind = "response" /\ event'.detail = "unauthorized")
          => /\ accessToken' = "none"
             /\ ~refreshToken'
             /\ storedConvId' = "undefined"
             /\ location' = "login"
             /\ sockets' = sockets
     /\ (event'.kind = "response" /\ event'.detail = "failed")
          => /\ sockets' = sockets
             /\ toast' # "undefined"
             /\ accessToken' = accessToken
             /\ refreshToken' = refreshToken
             /\ location' = location]_vars

\* C17 witness: the creation request was answered with 401: the tokens and the
\* conversation id are gone, the page is the login page and no WebSocket exists.
C17_Witness ==
  /\ event = [kind |-> "response", detail |-> "unauthorized"]
  /\ accessToken = "none"
  /\ location = "login"
  /\ sockets = <<>>

\* C18: at most one WebSocket of the session is CONNECTING or OPEN, and a reconnect
\* timeout that fires starts a connection setup only if wsRef.current is then null or
\* CLOSED.
C18_OneLiveConnection ==
  [][/\ Cardinality({s \in DOMAIN sockets' :
                       sockets'[s].readyState \in {"CONNECTING", "OPEN"}}) <= 1
     /\ (/\ Len(reconnectTimers') < Len(reconnectTimers)
         /\ Len(sockets') > Len(sockets) \/ pendingCreates' > pendingCreates)
          => (wsRef = 0 \/ sockets[wsRef].readyState = "CLOSED")]_vars

\* C18 witness: the first connection closed with 1006, the reconnect timeout fired
\* and the second connection is open.
C18_Witness ==
  /\ phase = "mounted"
  /\ Len(sockets) = 2
  /\ sockets[1].readyState = "CLOSED" /\ sockets[1].code = 1006
  /\ sockets[2].readyState = "OPEN"
  /\ wsRef = 2

\* The component is unmounted and every WebSocket that existed when it was
\* unmounted is CLOSED: its close event has been handled
TornDown ==
  /\ phase = "unmounted"
  /\ \A s \in DOMAIN sockets :
       sockets[s].createdIn # "unmounted" => sockets[s].readyState = "CLOSED"

\* C19: once the component is unmounted and the close of its connection has been
\* handled, no WebSocket of the session has a heartbeat interval, the rotation
\* interval is cleared, no heartbeat callback runs or sends a ping and no rotation
\* callback runs.
C19_TeardownReleasesIntervals ==
  [][TornDown =>
       /\ \A s \in DOMAIN sockets' : ~sockets'[s].heartbeatInterval
       /\ ~(phase' = "mounted" /\ isTyping'.is_typing)
       /\ event'.kind \notin {"heartbeat", "rotation"}
       /\ \A i \in DOMAIN sent' : i > Len(sent) => sent'[i].type # "ping"]_vars

\* C20: a conversation-creation request is issued only while the session holds no
\* conversation id, and a WebSocket created while it holds one is created for that
\* id.
C20_ConversationReuse ==
  [][/\ pendingCreates' > pendingCreates => conversationId = "undefined"
     /\ (Len(sockets') > Len(sockets) /\ conversationId # "undefined")
          => sockets'[Len(sockets')].convId = conversationId]_vars


\* C21: a conversation_created frame with id X makes X the conversation id of the
\* session, in memory and in the persisted store: every user_message frame sent
\* after it (until another conversation_created frame) carries conversation_id X, and
\* in a mounted session a persisted conversation id, when present, equals the one in
\* memory.
C21_AnnouncedConversationIsUsed ==
  [][ /\ ( /\ announcedConvId' # "undefined"
           /\ Len(sent') = Len(sent) + 1
           /\ sent'[Len(sent')].type = "user_message" )
         => sent'[Len(sent')].conversation_id = announcedConvId'
      /\ (phase' = "mounted" /\ storedConvId' # "undefined")
         => storedConvId' = conversationId' ]_vars

\* C22: executeStep(stepId, stepName) on a connected session that has a conversation
\* id sets, in the same operation, every step whose id is stepId to executing and
\* leaves every other step and message as it was, appends one user message, sends
\* exactly one user_message frame whose step_execution.step_id is stepId and starts
\* the 3-unit fallback timer; on a session that is not connected or has no
\* conversation id it changes no state, sends nothing and starts no timer.
C22_ExecuteStep ==
  [][event'.kind = "executeStep" =>
       IF wsRef # 0 /\ isConnected /\ conversationId # "undefined"
         THEN /\ Len(messages') = Len(messages) + 1
              /\ messages'[Len(messages')].type = "user"
              /\ \A i \in DOMAIN messages :
                   IF messages[i].type = "execution_plan" /\ messages[i].executionPlan # <<>>
                     THEN messages'[i] =
                            [messages[i] EXCEPT !.executionPlan[1].steps =
                               [j \in DOMAIN @ |->
                                  IF @[j].id = event'.detail
                                    THEN [@[j] EXCEPT !.status = "executing"]
                                    ELSE @[j]]]
                     ELSE messages'[i] = messages[i]
              /\ Len(sent') = Len(sent) + 1
              /\ SubSeq(sent', 1, Len(sent)) = sent
              /\ sent'[Len(sent')].type = "user_message"
              /\ sent'[Len(sent')].step_id = event'.detail
              /\ sent'[Len(sent')].conversation_id = conversationId
              /\ Len(stepTimers') = Len(stepTimers) + 1
              /\ stepTimers'[Len(stepTimers')] = [stepId |-> event'.detail, rem |-> 3]
         ELSE UNCHANGED <<phase, messages, isConnected, isTyping, conversationId,
                          accessToken, refreshToken, storedConvId, location, sockets,
                          wsRef, pendingCreates, stepTimers, reconnectTimers, sent,
                          thinkingMessages, currentThinkingMessage>>]_vars

\* executeStep has marked step-2 executing next to a completed step-1 and has sent
\* the frame of step-2
C22_Witness ==
  /\ event = [kind |-> "executeStep", detail |-> "step-2"]
  /\ sent[Len(sent)].step_id = "step-2"
  /\ \E i \in PlanMessages :
       /\ messages[i].executionPlan[1].steps[1].status = "completed"
       /\ messages[i].executionPlan[1].steps[2].status = "executing"
       /\ messages[i].executionPlan[1].steps[3].status = "pending"

\* Step j of the plan of message i has one of the given statuses
StepStatusIn(i, j, statuses) ==
  /\ i \in DOMAIN messages
  /\ messages[i].type = "execution_plan"
  /\ messages[i].executionPlan # <<>>
  /\ messages[i].executionPlan[1].steps[j].status \in statuses

\* C23: every step that executeStep has set to executing eventually becomes completed
\* or failed, whether or not an inbound frame arrives, as long as the page is not
\* left and the timers run.
C23_ExecutingStepTerminates ==
  \A i \in 1..MaxMsgs, j \in 1..5 :
    StepStatusIn(i, j, {"executing"})
      ~> (StepStatusIn(i, j, {"completed", "failed"}) \/ location # "chat")

\* The fallback timeout alone has completed step-2: no step frame names it and no
\* step-result message was received
C23_Witness ==
  /\ stepTimers = <<>>
  /\ \E i \in PlanMessages : messages[i].executionPlan[1].steps[2].status = "completed"
  /\ \A i \in DOMAIN messages : messages[i].type # "ai"

\* The frames of the given list that were sent on socket s, in order
FramesOf(frames, s) == SelectSeq(frames, LAMBDA f : f.socket = s)

\* C24: on every connection that opened, the subscribe frame naming the conversation
\* id of that connection is the first frame sent on it, before any ping or
\* user_message frame; the keep-alive interval of a connection exists only after
\* its subscribe frame; and a ping frame is sent on a socket only while it is OPEN.
C24_SubscribeFirst ==
  [][ /\ \A s \in DOMAIN sockets' :
           /\ FramesOf(sent', s) # <<>> =>
                /\ FramesOf(sent', s)[1].type = "subscribe"
                /\ FramesOf(sent', s)[1].conversation_id = sockets'[s].convId
           /\ sockets'[s].readyState = "OPEN" => FramesOf(sent', s) # <<>>
           /\ sockets'[s].heartbeatInterval => FramesOf(sent', s) # <<>>
      /\ (Len(sent') = Len(sent) + 1 /\ sent'[Len(sent')].type = "ping")
           => /\ sockets[sent'[Len(sent')].socket].readyState = "OPEN"
              /\ sockets[sent'[Len(sent')].socket].heartbeatInterval ]_vars

\* The second connection of the session carried its subscribe frame, then a
\* user_message frame and a ping frame
C24_Witness ==
  /\ Len(sockets) = 2
  /\ Len(FramesOf(sent, 2)) = 3
  /\ FramesOf(sent, 2)[1].type = "subscribe"
  /\ {FramesOf(sent, 2)[2].type, FramesOf(sent, 2)[3].type} = {"user_message", "ping"}

\* C25: each of the four recovery frames (recovery_started, recovery_progress,
\* recovery_success, recovery_escalated) appends exactly one message of type system
\* to the message list and changes neither a plan nor a step status nor the typing
\* indicator: every earlier message, with its plan, is identical before and after.
C25_RecoveryFrame ==
  [][(event'.kind = "recovery" /\ phase = "mounted") =>
       /\ event'.detail \in {"recovery_started", "recovery_progress",
                             "recovery_success", "recovery_escalated"}
       /\ Len(messages') = Len(messages) + 1
       /\ SubSeq(messages', 1, Len(messages)) = messages
       /\ messages'[Len(messages')].type = "system"
       /\ messages'[Len(messages')].executionPlan = <<>>
       /\ isTyping' = isTyping
       /\ stepTimers' = stepTimers]_vars

\* A recovery_escalated frame was handled while a step was executing and the typing
\* indicator was on
C25_Witness ==
  /\ event = [kind |-> "recovery", detail |-> "recovery_escalated"]
  /\ isTyping.is_typing
  /\ messages[Len(messages)].type = "system"
  /\ \E p \in StepPositions(messages) : StepAt(messages, p).status = "executing"

\* C26: the index of the thinking message shown is always a valid index into the
\* current list of thinking messages (0 <= index < length); a rotation tick advances
\* it by one modulo the length of the list and changes nothing else; and whenever
\* the list is replaced (by a typing_indicator frame with is_typing true or by
\* sendMessage) the index is reset to 0 in the same step.
C26_RotationIndexValid ==
  [][ /\ currentThinkingMessage' >= 0
      /\ currentThinkingMessage' < Len(thinkingMessages')
      /\ event'.kind = "rotation" =>
           /\ currentThinkingMessage' =
                IF currentThinkingMessage + 1 = Len(thinkingMessages)
                  THEN 0 ELSE currentThinkingMessage + 1
           /\ UNCHANGED <<phase, messages, isConnected, isTyping, conversationId,
                          accessToken, refreshToken, storedConvId, location, sockets,
                          wsRef, pendingCreates, stepTimers, reconnectTimers, sent,
                          thinkingMessages>>
      /\ (thinkingMessages' # thinkingMessages \/ event'.kind = "sendMessage")
           => currentThinkingMessage' = 0
      /\ (event'.kind = "typing_indicator" /\ isTyping'.is_typing)
           => \/ currentThinkingMessage' = 0
              \/ UNCHANGED <<thinkingMessages, currentThinkingMessage>> ]_vars

\* The rotation has wrapped around: the index is back at 0 after it had reached the
\* last of the seven messages a frame without context selects
C26_Witness ==
  /\ event.kind = "rotation"
  /\ currentThinkingMessage = 0
  /\ Len(thinkingMessages) = 7

\* The list the thinking-message rules select for a key and an agent: the base
\* messages, then the entry of the operation table the key names or else the entry
\* of the intent table it names, then the entry of the agent table the agent names,
\* then the general messages when that makes at most 3 messages
SelectedThinkingMessages(key, agent) ==
  LET byKey ==
        IF key \in DOMAIN operationMessages THEN operationMessages[key]
        ELSE IF key \in DOMAIN intentMessages THEN intentMessages[key]
        ELSE <<>>
      byAgent == IF agent \in DOMAIN agentMessages THEN agentMessages[agent] ELSE <<>>
      combined == baseMessages \o byKey \o byAgent
  IN IF Len(combined) <= 3 THEN combined \o fillerMessages ELSE combined

\* C27: getContextAwareThinkingMessages(key, agent) returns, for every key and agent,
\* a non-empty list: the entry of the operation table when the key names one (the
\* intent table is then not consulted), otherwise the entry of the intent table the
\* key names; the entry of the agent the agent names is appended after it; and the
\* general messages are appended exactly when the list has at most 3 entries.  Every
\* call made by a typing_indicator frame with is_typing true and by sendMessage
\* leaves that list as the list of thinking messages.
C27_ThinkingMessagesSelected ==
  [][ /\ (event'.kind = "typing_indicator" /\ isTyping'.is_typing)
           => /\ thinkingMessages' = SelectedThinkingMessages(event'.detail, isTyping'.agent)
              /\ thinkingMessages' # <<>>
      /\ event'.kind = "sendMessage"
           => /\ thinkingMessages' = SelectedThinkingMessages(event'.detail, "Victor")
              /\ thinkingMessages' # <<>> ]_vars

C29_NoStepExecutedAgain ==
  [][ /\ \A p \in StepPositions(messages) :
           StepAt(messages, p).status \in {"completed", "failed"}
             => StepAt(messages', p).status \notin {"executing", "pending"}
      /\ \A p \in StepPositions(messages') :
           StepAt(messages', p).status \notin {"approved", "skipped"}
      /\ (event'.kind = "executeStep" /\ Len(sent') > Len(sent))
           => \A p \in StepPositions(messages) :
                StepAt(messages, p).id = event'.detail
                  => StepAt(messages, p).status \notin {"executing", "completed", "failed"}
    ]_vars

\* The requests the interceptor issued for request r
RefreshesOf(requests, r) == {c \in DOMAIN requests : requests[c].parent = r}

\* C30: the 401 handling of the auth client terminates: a request is transmitted at
\* most twice, the second time only after the one refresh its 401 caused has
\* succeeded; a /refresh request is transmitted once and is never itself refreshed;
\* and when the refresh fails, both stored tokens are removed and the request is
\* rejected with the error of the refresh, in the same step.
C30_RefreshTerminates ==
  [][ /\ \A r \in DOMAIN authRequests' :
           /\ authRequests'[r].attempts <= 2
           /\ Cardinality(RefreshesOf(authRequests', r)) <= 1
           /\ authRequests'[r].attempts = 2 =>
                \E c \in RefreshesOf(authRequests', r) :
                  authRequests'[c].state = "resolved" /\ authRequests'[c].status = "ok"
           /\ authRequests'[r].url = <<"/refresh">> =>
                /\ authRequests'[r].attempts = 1
                /\ RefreshesOf(authRequests', r) = {}
      /\ \A c \in DOMAIN authRequests :
           ( /\ authRequests[c].parent # 0
             /\ authRequests[c].state = "pending"
             /\ authRequests'[c].state = "rejected" )
           => /\ accessToken' = "none"
              /\ refreshToken' = FALSE
              /\ authRequests'[authRequests[c].parent].state = "rejected"
              /\ authRequests'[authRequests[c].parent].errorOf = c
              /\ authRequests'[authRequests[c].parent].attempts = 1 ]_vars

\* One call was retried after a refresh and rejected on its second 401; another was
\* rejected because its refresh failed, which removed the tokens
C30_Witness ==
  /\ \E r \in DOMAIN authRequests :
       /\ authRequests[r].attempts = 2
       /\ authRequests[r].state = "rejected"
       /\ authRequests[r].status = "unauthorized"
  /\ \E r \in DOMAIN authRequests, c \in DOMAIN authRequests :
       /\ authRequests[c].parent = r
       /\ authRequests[c].state = "rejected"
       /\ authRequests[r].state = "rejected"
  /\ accessToken = "none"
  /\ ~refreshToken

====
